---- MODULE Spec2Model ----
(***************************************************************************)
(* A model of the GPU resource wrappers of rust-opengl-template:           *)
(* BufferObject<T> (src/render/buffer.rs) and Shader / Program /           *)
(* ComputeProgram (src/render/shader.rs), run against a model of the one   *)
(* OpenGL context they all talk to, and of the main loop that drives them  *)
(* (src/main.rs, src/game.rs, src/state.rs).                               *)
(*                                                                         *)
(* The Rust side is the set of wrapper objects and their fields; the       *)
(* device side is the record gl.  Every gl::Xxx call of the source is an   *)
(* operator Xxx(g, ...) from device state to device state, written from    *)
(* the OpenGL 4.3 core rules for that entry point (the error cases leave   *)
(* the state unchanged, as the GL does).  A wrapper method is one action   *)
(* that composes the device calls in the order the source makes them.      *)
(***************************************************************************)
EXTENDS Integers, Sequences, FiniteSets, TLC

\* ------------------------------------------------------------------ bounds
MaxBuffers == 2     \* BufferObject values ever generated
MaxLen     == 4     \* longest slice handed to set_data / with_capacity
MaxObjs    == 4     \* shader + program names ever created
MaxPrograms == 2    \* of them, programs
MaxIndex   == 0     \* highest indexed binding point used by bind_base
MaxEvents  == 3     \* events the window system posts in one run

\* --------------------------------------------------------- program constants
\* enum BufferType, #[repr(u32)]: the raw values of the gl crate
ArrayBuffer   == 34962
ElementArray  == 34963
ShaderStorage == 37074

BufferTypes == {ArrayBuffer, ElementArray, ShaderStorage}

\* enum BufferUsage: the hint state.rs passes (a hint never changes behaviour)
BufferUsages == {"StaticDraw"}

\* size_of::<T>() of the element types used: u8 and i32 / u32
ElemSizes == {1, 4}

\* The targets glMapBuffer, glUnmapBuffer, glBufferData and glBindBuffer accept.
\* A buffer NAME (1, 2, ...) is not one of them.
GLBufferTargets == BufferTypes \cup {35051, 35052, 35345, 36662, 36663}

\* The targets glBindBufferBase accepts (of those BufferType can name).
GLIndexedTargets == {ShaderStorage}

NULL == 0

\* ------------------------------------------------------------------ inputs
Ramp(b, n) == [i \in 1..n |-> b + i]
Fill(n, v) == [i \in 1..n |-> v]

\* The slices callers upload: distinct elements, so order and length show.
Lens == {0, 2, MaxLen}
DataSeqs == {Ramp(b, n) : b \in {10, 20}, n \in Lens}

\* What unspecified memory may hold (an uninitialised data store, a read
\* through an invalid pointer that does not fault).
Unspecified == {0, 255}

VARIABLES
    bufs,       \* the BufferObject<T> values, in order of creation
    shaders,    \* the ids held by live Shader values
    programs,   \* live Program values: id -> [uniform_cache, compute]
    gl,         \* the OpenGL context
    lastOp,     \* the wrapper call that returned last, and its result
    slice,      \* the slice the last read_slice / read_write_slice built
    seen,       \* what the callback found behind that slice
    game        \* the Game of main.rs: its fields and the place main is at

vars == <<bufs, shaders, programs, gl, lastOp, slice, seen, game>>

\* ------------------------------------------------------ the device: buffers
Call(g, c) == [g EXCEPT !.calls = Append(@, c)]

\* Every wrapper method starts a fresh trace of device calls.
Begin(g) == [g EXCEPT !.calls = <<>>]

\* glGenBuffers(n, &bo) with n <= 1: n = 1 stores a fresh name in bo, n = 0
\* stores nothing (bo keeps its initial 0).
GenBuffers(g, n) ==
    LET g1 == Call(g, <<"GenBuffers", n>>)
    IN IF n = 0 THEN [g |-> g1, bo |-> 0]
       ELSE [g |-> [g1 EXCEPT !.nbuf = @ + 1], bo |-> g.nbuf + 1]

\* glBindBuffer(target, name): the generic binding point of target.
BindBuffer(g, target, name) ==
    LET g1 == Call(g, <<"BindBuffer", target, name>>)
    IN IF target \notin GLBufferTargets THEN g1
       ELSE [g1 EXCEPT !.binding[target] = name]

\* glBufferData(target, bytes, data, usage): a new data store for the buffer
\* bound to target; data is the elements copied in (for a null pointer, what
\* the fresh store happens to hold).  GL_INVALID_OPERATION with nothing bound.
BufferData(g, target, bytes, data, usage) ==
    LET g1 == Call(g, <<"BufferData", target, bytes>>)
    IN IF target \notin GLBufferTargets \/ g.binding[target] = 0 THEN g1
       ELSE [g1 EXCEPT !.store[g.binding[target]] =
                           [bytes |-> bytes, elems |-> data]]

\* glMapBuffer(target, access): GL_INVALID_ENUM and NULL when target is not
\* a buffer target, GL_INVALID_OPERATION and NULL with nothing bound to it or
\* with the buffer already mapped; otherwise the buffer is mapped and the
\* pointer stands for its store.
MapBuffer(g, target, access) ==
    LET g1 == Call(g, <<"MapBuffer", target, access>>)
    IN IF target \notin GLBufferTargets THEN [g |-> g1, addr |-> NULL]
       ELSE IF g.binding[target] = 0 \/ g.binding[target] \in g.mapped
            THEN [g |-> g1, addr |-> NULL]
       ELSE [g |-> [g1 EXCEPT !.mapped = @ \cup {g.binding[target]}],
             addr |-> g.binding[target]]

\* glUnmapBuffer(target)
UnmapBuffer(g, target) ==
    LET g1 == Call(g, <<"UnmapBuffer", target>>)
    IN IF target \notin GLBufferTargets THEN g1
       ELSE [g1 EXCEPT !.mapped = @ \ {g.binding[target]}]

\* glCopyBufferSubData(readTarget, writeTarget, readOffset, writeOffset, size)
\* GL_INVALID_ENUM when either target is not a buffer target,
\* GL_INVALID_OPERATION with nothing bound to one of them, GL_INVALID_VALUE
\* when a range leaves its store.  Offsets and size are bytes; the stores of
\* the model hold whole elements of width ts.
CopyBufferSubData(g, rt, wt, roff, woff, size, ts) ==
    LET g1 == Call(g, <<"CopyBufferSubData", rt, wt>>)
    IN IF rt \notin GLBufferTargets \/ wt \notin GLBufferTargets THEN g1
       ELSE IF g.binding[rt] = 0 \/ g.binding[wt] = 0 THEN g1
       ELSE LET r == g.store[g.binding[rt]]
                w == g.store[g.binding[wt]]
            IN IF roff + size > r.bytes \/ woff + size > w.bytes THEN g1
               ELSE [g1 EXCEPT !.store[g.binding[wt]].elems =
                        [i \in 1..Len(w.elems) |->
                            IF i > woff \div ts /\ i <= (woff + size) \div ts
                            THEN r.elems[i - (woff \div ts) + (roff \div ts)]
                            ELSE w.elems[i]]]

\* glBindBufferBase(target, index, name): binds name to the indexed binding
\* point AND to the generic binding point of target.  GL_INVALID_ENUM for a
\* target without indexed binding points, GL_INVALID_VALUE for an index
\* beyond them.
BindBufferBase(g, target, index, name) ==
    LET g1 == Call(g, <<"BindBufferBase", target, index, name>>)
    IN IF target \notin GLIndexedTargets \/ index > MaxIndex THEN g1
       ELSE [g1 EXCEPT !.indexed[index] = name, !.binding[target] = name]

\* --------------------------------------------- the device: shaders, programs
\* enum ShaderType
ShaderTypes == {"Vertex", "Fragment", "Compute", "Geometry"}

\* Shader source texts: the two of state.rs, a compute shader that stores 42
\* in every int of the storage block at binding 0, a compute shader that
\* calls a function it declares and never defines (it compiles; no program
\* links with it), and a text no stage accepts.
Sources == {"screen.vert", "screen.frag", "fill.comp", "undef.comp", "broken"}

SrcStage(src) ==
    CASE src = "screen.vert" -> "Vertex"
      [] src = "screen.frag" -> "Fragment"
      [] src = "fill.comp"   -> "Compute"
      [] src = "undef.comp"  -> "Compute"
      [] OTHER               -> "None"

\* uniform name -> GLSL type, as declared in a source text
SrcUniforms(src) ==
    CASE src = "screen.frag" -> {<<"windowSize", "vec2">>}
      [] src = "fill.comp"   -> {<<"windowSize", "int">>}
      [] OTHER               -> {}

\* The uniform names callers ask for; "missing" is declared nowhere.
Names == {"windowSize", "missing"}

\* The compiler: a text compiles only as the stage it was written for.
Compiles(src, kind) == SrcStage(src) = kind

\* The compiler's and the linker's diagnostics, as characters.
CompileLog == <<"c", "c", ":", "1">>
LinkLog    == <<"l", "d", ":", "1">>

NoObj == [type |-> "none", live |-> FALSE, stage |-> "None", src |-> "",
          compiled |-> FALSE, attached |-> {}, linked |-> FALSE, exe |-> {},
          flagged |-> FALSE]

IsShader(g, id)  == id \in 1..g.nobj /\ g.objs[id].type = "shader" /\ g.objs[id].live
IsProgram(g, id) == id \in 1..g.nobj /\ g.objs[id].type = "program" /\ g.objs[id].live

\* glCreateShader(kind): a fresh name in the namespace shaders and programs share
CreateShader(g, kind) ==
    LET id == g.nobj + 1
        g1 == Call(g, <<"CreateShader", kind>>)
    IN [g |-> [g1 EXCEPT !.nobj = id,
                         !.objs = Append(@, [NoObj EXCEPT !.type = "shader",
                                                          !.live = TRUE,
                                                          !.stage = kind])],
        id |-> id]

\* glShaderSource + glCompileShader
CompileShader(g, id, src) ==
    LET g1 == Call(g, <<"CompileShader", id>>)
    IN IF ~IsShader(g, id) THEN g1
       ELSE [g1 EXCEPT !.objs[id].src = src,
                       !.objs[id].compiled = Compiles(src, g.objs[id].stage)]

\* glGetShaderiv(id, COMPILE_STATUS)
CompileStatus(g, id) == IF IsShader(g, id) /\ g.objs[id].compiled THEN 1 ELSE 0

\* glDeleteShader(id): GL_INVALID_VALUE for a name that is no object,
\* GL_INVALID_OPERATION for a program; an attached shader is only flagged.
DeleteShader(g, id) ==
    LET g1 == Call(g, <<"DeleteShader", id>>)
    IN IF ~IsShader(g, id) THEN g1
       ELSE IF \E p \in 1..g.nobj : IsProgram(g, p) /\ id \in g.objs[p].attached
            THEN [g1 EXCEPT !.objs[id].flagged = TRUE]
       ELSE [g1 EXCEPT !.objs[id].live = FALSE]

\* glCreateProgram()
CreateProgram(g) ==
    LET id == g.nobj + 1
        g1 == Call(g, <<"CreateProgram">>)
    IN [g |-> [g1 EXCEPT !.nobj = id,
                         !.objs = Append(@, [NoObj EXCEPT !.type = "program",
                                                          !.live = TRUE])],
        id |-> id]

\* glAttachShader(program, shader)
AttachShader(g, p, s) ==
    LET g1 == Call(g, <<"AttachShader", p, s>>)
    IN IF ~IsProgram(g, p) \/ ~IsShader(g, s) \/ s \in g.objs[p].attached THEN g1
       ELSE [g1 EXCEPT !.objs[p].attached = @ \cup {s}]

\* glDetachShader(program, shader): a shader flagged for deletion goes with
\* its last attachment.
DetachShader(g, p, s) ==
    LET g1 == Call(g, <<"DetachShader", p, s>>)
    IN IF ~IsProgram(g, p) \/ s \notin g.objs[p].attached THEN g1
       ELSE LET g2 == [g1 EXCEPT !.objs[p].attached = @ \ {s}]
            IN IF g2.objs[s].flagged
                  /\ ~\E q \in 1..g2.nobj : IsProgram(g2, q) /\ s \in g2.objs[q].attached
               THEN [g2 EXCEPT !.objs[s].live = FALSE]
               ELSE g2

\* The linker: every attached shader compiled and every function it calls
\* defined, at most one shader per stage, a compute stage alone, a geometry
\* stage only with a vertex stage, and at least one shader.
StagesOf(g, S) == {g.objs[s].stage : s \in S}
LinkOK(g, S) ==
    /\ S # {}
    /\ \A s \in S : g.objs[s].compiled /\ g.objs[s].src # "undef.comp"
    /\ \A s, t \in S : g.objs[s].stage = g.objs[t].stage => s = t
    /\ "Compute" \in StagesOf(g, S) => StagesOf(g, S) = {"Compute"}
    /\ "Geometry" \in StagesOf(g, S) => "Vertex" \in StagesOf(g, S)

\* glLinkProgram(program): on success the executable is built from the texts
\* of the shaders attached now; later detaching does not change it.
LinkProgram(g, p) ==
    LET g1 == Call(g, <<"LinkProgram", p>>)
    IN IF ~IsProgram(g, p) THEN g1
       ELSE LET S == g.objs[p].attached
            IN IF LinkOK(g, S)
               THEN [g1 EXCEPT !.objs[p].linked = TRUE,
                               !.objs[p].exe = {g.objs[s].src : s \in S}]
               ELSE [g1 EXCEPT !.objs[p].linked = FALSE, !.objs[p].exe = {}]

\* glGetProgramiv(id, LINK_STATUS)
LinkStatus(g, id) == IF IsProgram(g, id) /\ g.objs[id].linked THEN 1 ELSE 0

\* The diagnostic text the device holds for an object (what glGetShaderInfoLog
\* / glGetProgramInfoLog would copy out): the compiler's log of a shader whose
\* compile failed, the linker's log of a program whose link failed.
InfoLog(g, id) ==
    IF id \notin 1..g.nobj THEN <<>>
    ELSE IF g.objs[id].type = "shader"
         THEN IF g.objs[id].compiled THEN <<>> ELSE CompileLog
    ELSE IF g.objs[id].linked THEN <<>> ELSE LinkLog

\* The buffer names in use: glDeleteBuffers is called nowhere in the source,
\* so every name glGenBuffers handed out stays in use.
LiveBuffers(g) == 1..g.nbuf

\* The active uniforms of a linked program: name -> type
ActiveUniforms(g, p) == UNION {SrcUniforms(src) : src \in g.objs[p].exe}

\* glUseProgram(id): the context-wide current program.  GL_INVALID_VALUE for
\* a name that is no object, GL_INVALID_OPERATION for a shader or for a
\* program that is not linked.
UseProgram(g, id) ==
    LET g1 == Call(g, <<"UseProgram", id>>)
    IN IF id = 0 THEN [g1 EXCEPT !.active = 0]
       ELSE IF ~IsProgram(g, id) \/ ~g.objs[id].linked THEN g1
       ELSE [g1 EXCEPT !.active = id]

\* glGetUniformLocation(program, name): the location of an active uniform of
\* a linked program, -1 for any other name.  It reads the program it is
\* given, not the current one.  Each program of the model has at most one
\* active uniform, at location 0.  The device counts the queries it serves
\* (up to 3).
GetUniformLocation(g, p, name) ==
    LET g1 == Call(g, <<"GetUniformLocation", p, name>>)
        g2 == [g1 EXCEPT !.queries[<<p, name>>] = IF @ < 3 THEN @ + 1 ELSE @]
    IN [g |-> g2,
        loc |-> IF IsProgram(g, p) /\ g.objs[p].linked
                   /\ \E u \in ActiveUniforms(g, p) : u[1] = name
                THEN 0 ELSE -1]

\* glUniform1i / 1f / 2f / 3f (location, value): writes the uniform of the
\* CURRENT program.  GL_INVALID_OPERATION with no current program or when the
\* call does not match the uniform's type; location -1 is silently ignored.
\* The trace keeps the program that was current when the call arrived.
UniformType(fn) ==
    CASE fn = "Uniform1i" -> "int"
      [] fn = "Uniform1f" -> "float"
      [] fn = "Uniform2f" -> "vec2"
      [] fn = "Uniform3f" -> "vec3"

Uniform(g, fn, loc, val) ==
    LET g1 == Call(g, <<fn, loc, val, g.active>>)
    IN IF g.active = 0 \/ loc # 0 THEN g1
       ELSE IF ~\E u \in ActiveUniforms(g, g.active) : u[2] = UniformType(fn)
            THEN g1
       ELSE [g1 EXCEPT !.uvalue[g.active] = val]

\* glDispatchCompute(x, y, z): runs the compute stage of the current program,
\* GL_INVALID_OPERATION when it has none.  Every invocation of fill.comp
\* stores the int 42 in each whole int of the storage buffer at binding 0;
\* in a store of 1-byte elements that is the bytes 42 0 0 0.  The stores are
\* incoherent (pending) until a memory barrier.
ShaderWrites(st) ==
    IF Len(st.elems) = 0 THEN st.elems
    ELSE IF st.bytes \div Len(st.elems) = 4 THEN Fill(Len(st.elems), 42)
    ELSE [i \in 1..Len(st.elems) |->
             IF i > 4 * (st.bytes \div 4) THEN st.elems[i]
             ELSE IF i % 4 = 1 THEN 42 ELSE 0]

DispatchCompute(g, x, y, z) ==
    LET g1 == Call(g, <<"DispatchCompute", x, y, z>>)
    IN IF g.active = 0 \/ "fill.comp" \notin g.objs[g.active].exe THEN g1
       ELSE IF x * y * z = 0 \/ g.indexed[0] = 0 THEN g1
       ELSE [g1 EXCEPT !.pending =
                {w \in @ : w[1] # g.indexed[0]}
                \cup {<<g.indexed[0], ShaderWrites(g.store[g.indexed[0]])>>}]

\* glMemoryBarrier(bits): with the buffer bits set, every pending shader
\* store becomes visible to later commands.
Commit(store, pending) ==
    [b \in DOMAIN store |->
        IF \E w \in pending : w[1] = b
        THEN [store[b] EXCEPT !.elems = (CHOOSE w \in pending : w[1] = b)[2]]
        ELSE store[b]]

MemoryBarrier(g, bits) ==
    LET g1 == Call(g, <<"MemoryBarrier", bits>>)
    IN IF bits # "ALL_BARRIER_BITS" THEN g1
       ELSE [g1 EXCEPT !.store = Commit(g.store, g.pending), !.pending = {}]

\* ---------------------------------------------------------------- the state
\* lastOp: the method, the object it ran on (a slot of bufs, or a shader /
\* program id), its name argument, the integer it returned (a location, 1 / 0
\* for Ok / Err) and its sequence argument or error text.
Op(op, obj, name, ret, data) ==
    [op |-> op, obj |-> obj, name |-> name, ret |-> ret, data |-> data]

NoSlice == [addr |-> NULL, len |-> 0]
NoView  == [crash |-> FALSE, panic |-> FALSE, elems |-> <<>>]

\* A context right after window.gl_create_context(): no object, no binding.
NewContext ==
    [nbuf    |-> 0,
     store   |-> [b \in 1..MaxBuffers |-> [bytes |-> 0, elems |-> <<>>]],
     binding |-> [t \in GLBufferTargets |-> 0],
     indexed |-> [i \in 0..MaxIndex |-> 0],
     mapped  |-> {},
     nobj    |-> 0,
     objs    |-> <<>>,
     active  |-> 0,
     uvalue  |-> [p \in 1..MaxObjs |-> <<>>],
     queries |-> [k \in (1..MaxObjs) \X Names |-> 0],
     pending |-> {},
     calls   |-> <<>>]

\* The wrappers used without a Game around them.
NoGame == [pc |-> "none", running |-> FALSE, state |-> 0, queue |-> <<>>,
           posted |-> 0, window_size |-> <<0, 0>>, keys_down |-> {}]

Init ==
    /\ bufs = <<>>
    /\ shaders = {}
    /\ programs = [p \in {} |-> 0]
    /\ gl = NewContext
    /\ lastOp = Op("new", 0, "", 0, <<>>)
    /\ slice = NoSlice
    /\ seen = NoView
    /\ game = NoGame

\* A callback that faulted on its slice ended the process.
Alive == ~seen.crash

\* ------------------------------------------------- BufferObject<T>: methods
\* Each takes the device and the object and gives both back.

\* BufferObject::gen
gen(g, n, kind, ts) ==
    LET r == GenBuffers(g, n)
    IN [g |-> r.g, o |-> [id |-> r.bo, kind |-> kind, size |-> 0, tsize |-> ts]]

\* BufferObject::bind / unbind
bind(g, o)   == BindBuffer(g, o.kind, o.id)
unbind(g, o) == BindBuffer(g, o.kind, 0)

\* BufferObject::set_data
set_data(g, o, data, usage) ==
    LET o1 == [o EXCEPT !.size = Len(data) * o.tsize]
        g1 == bind(g, o1)
        g2 == BufferData(g1, o1.kind, o1.size, data, usage)
    IN [g |-> unbind(g2, o1), o |-> o1]

\* BufferObject::with_data
with_data(g, kind, ts, data, usage) ==
    LET r == gen(g, 1, kind, ts)
    IN set_data(r.g, r.o, data, usage)

\* BufferObject::with_capacity; junk is what the fresh store holds
with_capacity(g, kind, ts, size, usage, junk) ==
    LET r  == gen(g, 1, kind, ts)
        g1 == bind(r.g, r.o)
        g2 == BufferData(g1, r.o.kind, size * ts, Fill(size, junk), usage)
    IN [g |-> unbind(g2, r.o), o |-> r.o]

\* What a callback finds behind slice::from_raw_parts(addr, len).  Behind a
\* null pointer: the read faults, or it yields whatever the build makes of
\* it.  Behind a mapping: the store's elements, then whatever follows it.
Deref(g, sl) ==
    IF sl.addr = NULL
    THEN {[crash |-> TRUE, panic |-> FALSE, elems |-> <<>>]}
         \cup {[crash |-> FALSE, panic |-> FALSE, elems |-> Fill(sl.len, v)] :
                  v \in Unspecified}
    ELSE {[crash |-> FALSE, panic |-> FALSE,
           elems |-> [i \in 1..sl.len |->
                         IF i <= Len(g.store[sl.addr].elems)
                         THEN g.store[sl.addr].elems[i] ELSE v]] :
            v \in Unspecified}

\* BufferObject::read_slice / read_write_slice up to the callback: the map
\* call and the slice built from its result.
map_slice(g, o, access) ==
    LET m == MapBuffer(g, o.id, access)
    IN [g |-> m.g, sl |-> [addr |-> m.addr, len |-> o.size]]

\* BufferObject::copy_to
copy_to(g, o, dest, read_offset, write_offset, length) ==
    CopyBufferSubData(g, o.id, dest.id, read_offset, write_offset, length, o.tsize)

\* BufferObject::bind_base
bind_base(g, o, layout) == BindBufferBase(g, o.kind, layout, o.id)

\* ------------------------------------------------- BufferObject<T>: actions
Slots == 1..Len(bufs)

Gen(ns, kinds) ==
    /\ Alive
    /\ \E n \in ns, kind \in kinds, ts \in ElemSizes :
        /\ gl.nbuf < MaxBuffers
        /\ LET r == gen(Begin(gl), n, kind, ts)
           IN /\ gl' = r.g
              /\ bufs' = Append(bufs, r.o)
        /\ lastOp' = Op("gen", Len(bufs) + 1, "", 0, <<>>)
        /\ UNCHANGED <<shaders, programs>> /\ slice' = NoSlice /\ seen' = NoView
        /\ UNCHANGED game

WithData(kinds, sizes, seqs) ==
    /\ Alive
    /\ \E kind \in kinds, ts \in sizes, data \in seqs, usage \in BufferUsages :
        /\ gl.nbuf < MaxBuffers
        /\ LET r == with_data(Begin(gl), kind, ts, data, usage)
           IN /\ gl' = r.g
              /\ bufs' = Append(bufs, r.o)
        /\ lastOp' = Op("with_data", Len(bufs) + 1, "", 0, data)
        /\ UNCHANGED <<shaders, programs>> /\ slice' = NoSlice /\ seen' = NoView
        /\ UNCHANGED game

WithCapacity(kinds, lens) ==
    /\ Alive
    /\ \E kind \in kinds, ts \in ElemSizes, size \in lens,
       usage \in BufferUsages, junk \in Unspecified :
        /\ gl.nbuf < MaxBuffers
        /\ LET r == with_capacity(Begin(gl), kind, ts, size, usage, junk)
           IN /\ gl' = r.g
              /\ bufs' = Append(bufs, r.o)
        /\ lastOp' = Op("with_capacity", Len(bufs) + 1, "", size, <<>>)
        /\ UNCHANGED <<shaders, programs>> /\ slice' = NoSlice /\ seen' = NoView
        /\ UNCHANGED game

SetData(seqs) ==
    /\ Alive
    /\ \E b \in Slots, data \in seqs, usage \in BufferUsages :
        /\ LET r == set_data(Begin(gl), bufs[b], data, usage)
           IN /\ gl' = r.g
              /\ bufs' = [bufs EXCEPT ![b] = r.o]
        /\ lastOp' = Op("set_data", b, "", 0, data)
        /\ UNCHANGED <<shaders, programs>> /\ slice' = NoSlice /\ seen' = NoView
        /\ UNCHANGED game

\* The ways reader(slice) ends: it returns, or it panics after looking at its
\* slice (a caller further up catches the unwind), or the look itself faults.
Reader(g, sl) ==
    {[out EXCEPT !.panic = p] : out \in Deref(g, sl), p \in BOOLEAN} \
        {[crash |-> TRUE, panic |-> TRUE, elems |-> <<>>]}

\* read_slice: map, build the slice, run the callback, unmap; an unwinding
\* callback leaves the function before the unmap statement.
ReadSlice ==
    /\ Alive
    /\ \E b \in Slots :
        LET m == map_slice(Begin(gl), bufs[b], "READ_ONLY")
        IN \E out \in Reader(m.g, m.sl) :
            /\ slice' = m.sl
            /\ seen' = out
            /\ gl' = IF out.crash \/ out.panic THEN m.g
                     ELSE UnmapBuffer(m.g, bufs[b].id)
            /\ lastOp' = Op("read_slice", b, "", 0, <<>>)
            /\ UNCHANGED <<bufs, shaders, programs, game>>

\* read_write_slice: the same with a callback that may also store; stores
\* through a mapping reach the data store, stores through a null pointer
\* reach nothing.  The callback of the model stores 7 in every element of
\* its slice that the mapping holds.
ReadWriteSlice ==
    /\ Alive
    /\ \E b \in Slots :
        LET m == map_slice(Begin(gl), bufs[b], "READ_WRITE")
        IN \E out \in Reader(m.g, m.sl) :
            /\ slice' = m.sl
            /\ seen' = out
            /\ gl' = IF out.crash THEN m.g
                     ELSE LET g1 == IF m.sl.addr = NULL THEN m.g
                                    ELSE [m.g EXCEPT !.store[m.sl.addr].elems =
                                             Fill(Len(@), 7)]
                          IN IF out.panic THEN g1
                             ELSE UnmapBuffer(g1, bufs[b].id)
            /\ lastOp' = Op("read_write_slice", b, "", 0, <<>>)
            /\ UNCHANGED <<bufs, shaders, programs, game>>

\* copy_to; dest is a BufferObject<T> of the same T
CopyTo ==
    /\ Alive
    /\ \E b \in Slots, d \in Slots, ro \in {0}, wo \in {0, 4}, len \in {4} :
        /\ b # d
        /\ bufs[b].tsize = bufs[d].tsize
        /\ gl' = copy_to(Begin(gl), bufs[b], bufs[d], ro, wo, len)
        /\ lastOp' = Op("copy_to", b, "", d, <<ro, wo, len>>)
        /\ UNCHANGED <<bufs, shaders, programs>> /\ slice' = NoSlice /\ seen' = NoView
        /\ UNCHANGED game

\* copy_all_to: copy_to(dest, 0, 0, self.size)
CopyAllTo ==
    /\ Alive
    /\ \E b \in Slots, d \in Slots :
        /\ b # d
        /\ bufs[b].tsize = bufs[d].tsize
        /\ gl' = copy_to(Begin(gl), bufs[b], bufs[d], 0, 0, bufs[b].size)
        /\ lastOp' = Op("copy_all_to", b, "", d, <<0, 0, bufs[b].size>>)
        /\ UNCHANGED <<bufs, shaders, programs>> /\ slice' = NoSlice /\ seen' = NoView
        /\ UNCHANGED game

BindBase ==
    /\ Alive
    /\ \E b \in Slots, layout \in 0..MaxIndex :
        /\ gl' = bind_base(Begin(gl), bufs[b], layout)
        /\ lastOp' = Op("bind_base", b, "", layout, <<>>)
        /\ UNCHANGED <<bufs, shaders, programs>> /\ slice' = NoSlice /\ seen' = NoView
        /\ UNCHANGED game

\* A BufferObject goes out of scope: the type has no Drop impl, so the value
\* is gone and no device call is made.
DropBuffer ==
    /\ Alive
    /\ \E b \in Slots :
        /\ gl' = Begin(gl)
        /\ bufs' = [i \in 1..(Len(bufs) - 1) |->
                        IF i < b THEN bufs[i] ELSE bufs[i + 1]]
        /\ lastOp' = Op("BufferObject::drop", bufs[b].id, "", 0, <<>>)
        /\ UNCHANGED <<shaders, programs>> /\ slice' = NoSlice /\ seen' = NoView
        /\ UNCHANGED game

\* ------------------------------------------- Shader, Program: function bodies
\* shader_from_source that never looks at the compile status
shader_from_source_IgnoresStatus(g, src, kind) ==
    LET c  == CreateShader(g, kind)
        g1 == CompileShader(c.g, c.id, src)
    IN [g |-> g1, ok |-> TRUE, id |-> c.id, err |-> <<>>]

\* shader_from_source: Ok(id), or Err(the text left in the buffer handed to
\* glGetShaderInfoLog).  That buffer is len = INFO_LOG_LENGTH spaces (the
\* log's characters plus its terminator); the GL overwrites all of it, and
\* CString::from_vec_unchecked appends the terminator of the CString, so the
\* string holds the log followed by the GL's NUL.
shader_from_source(g, src, kind) ==
    LET c  == CreateShader(g, kind)
        g1 == CompileShader(c.g, c.id, src)
    IN IF CompileStatus(g1, c.id) = 0
       THEN [g |-> Call(g1, <<"GetShaderInfoLog", c.id>>), ok |-> FALSE,
             id |-> c.id, err |-> Append(CompileLog, "NUL")]
       ELSE [g |-> g1, ok |-> TRUE, id |-> c.id, err |-> <<>>]

RECURSIVE AttachAll(_, _, _)
AttachAll(g, p, S) ==
    IF S = {} THEN g
    ELSE LET s == CHOOSE x \in S : \A y \in S : x <= y
         IN AttachAll(AttachShader(g, p, s), p, S \ {s})

RECURSIVE DetachAll(_, _, _)
DetachAll(g, p, S) ==
    IF S = {} THEN g
    ELSE LET s == CHOOSE x \in S : \A y \in S : x <= y
         IN DetachAll(DetachShader(g, p, s), p, S \ {s})

\* from_shaders that deletes the shaders once the program is linked
from_shaders_DeletesShaders(g, S) ==
    LET c  == CreateProgram(g)
        g1 == AttachAll(c.g, c.id, S)
        g2 == LinkProgram(g1, c.id)
        g4 == DetachAll(g2, c.id, S)
        g3 == [g4 EXCEPT !.objs = [i \in DOMAIN @ |->
                                      IF i \in S THEN [@[i] EXCEPT !.live = FALSE]
                                      ELSE @[i]]]
    IN IF LinkStatus(g3, c.id) = 0
       THEN [g |-> g3, ok |-> FALSE, id |-> c.id,
             err |-> Fill(Len(LinkLog) + 1, " ")]
       ELSE [g |-> g3, ok |-> TRUE, id |-> c.id, err |-> <<>>]

\* from_shaders that detaches only when the link succeeded
from_shaders_DetachOnSuccess(g, S) ==
    LET c  == CreateProgram(g)
        g1 == AttachAll(c.g, c.id, S)
        g2 == LinkProgram(g1, c.id)
    IN IF LinkStatus(g2, c.id) = 0
       THEN [g |-> g2, ok |-> FALSE, id |-> c.id,
             err |-> Fill(Len(LinkLog) + 1, " ")]
       ELSE [g |-> DetachAll(g2, c.id, S), ok |-> TRUE, id |-> c.id,
             err |-> <<>>]

\* Program::from_shaders: Ok(Program { id, empty cache }), or Err(len spaces),
\* len = INFO_LOG_LENGTH of the program (glGetProgramInfoLog is never called).
from_shaders(g, S) ==
    LET c  == CreateProgram(g)
        g1 == AttachAll(c.g, c.id, S)
        g2 == LinkProgram(g1, c.id)
        g3 == DetachAll(g2, c.id, S)
    IN IF LinkStatus(g3, c.id) = 0
       THEN [g |-> g3, ok |-> FALSE, id |-> c.id,
             err |-> Fill(Len(LinkLog) + 1, " ")]
       ELSE [g |-> g3, ok |-> TRUE, id |-> c.id, err |-> <<>>]

NewProgram(compute) == [uniform_cache |-> [n \in {} |-> 0], compute |-> compute]

\* Program::set_used
set_used(g, id) == UseProgram(g, id)

\* get_uniform_location that memoizes only the locations it found
get_uniform_location_MissNotCached(g, P, id, name) ==
    IF name \in DOMAIN P.uniform_cache
    THEN [g |-> g, P |-> P, loc |-> P.uniform_cache[name]]
    ELSE LET q == GetUniformLocation(g, id, name)
         IN [g |-> q.g,
             P |-> IF q.loc = -1 THEN P
                   ELSE [P EXCEPT !.uniform_cache = (name :> q.loc) @@ @],
             loc |-> q.loc]

\* get_uniform_location whose cache keeps only the name asked for last
get_uniform_location_SingleEntry(g, P, id, name) ==
    IF name \in DOMAIN P.uniform_cache
    THEN [g |-> g, P |-> P, loc |-> P.uniform_cache[name]]
    ELSE LET q == GetUniformLocation(g, id, name)
         IN [g |-> q.g,
             P |-> [P EXCEPT !.uniform_cache = (name :> q.loc)],
             loc |-> q.loc]

\* Program::get_uniform_location: the cached value, or one device query whose
\* result (-1 included) goes into the cache.
get_uniform_location(g, P, id, name) ==
    IF name \in DOMAIN P.uniform_cache
    THEN [g |-> g, P |-> P, loc |-> P.uniform_cache[name]]
    ELSE LET q == GetUniformLocation(g, id, name)
         IN [g |-> q.g,
             P |-> [P EXCEPT !.uniform_cache = (name :> q.loc) @@ @],
             loc |-> q.loc]

\* a setter that writes without activating its program first
set_uniform_NoUse(g, P, id, fn, name, val) ==
    LET r == get_uniform_location(g, P, id, name)
    IN [g |-> Uniform(r.g, fn, r.loc, val), P |-> r.P, loc |-> r.loc]

\* Program::set_int / set_float / set_vec2 / set_vec3: set_used, then the
\* location lookup, then the write.
set_uniform(g, P, id, fn, name, val) ==
    LET g1 == set_used(g, id)
        r  == get_uniform_location(g1, P, id, name)
    IN [g |-> Uniform(r.g, fn, r.loc, val), P |-> r.P, loc |-> r.loc]

\* execute that returns right after the dispatch
execute_NoBarrier(g, id, x, y, z) ==
    LET g1 == set_used(g, id)
    IN DispatchCompute(g1, x, y, z)

\* execute that dispatches on whatever program is current
execute_NoUse(g, id, x, y, z) ==
    LET g2 == DispatchCompute(g, x, y, z)
    IN MemoryBarrier(g2, "ALL_BARRIER_BITS")

\* ComputeProgram::execute
execute(g, id, x, y, z) ==
    LET g1 == set_used(g, id)
        g2 == DispatchCompute(g1, x, y, z)
    IN MemoryBarrier(g2, "ALL_BARRIER_BITS")

\* ------------------------------------------------- Shader, Program: actions
Without(f, k) == [i \in DOMAIN f \ {k} |-> f[i]]

\* The programs created so far (no program name is ever released).
NumPrograms == Cardinality({i \in 1..gl.nobj : gl.objs[i].type = "program"})

\* Shader::from_source
FromSource(texts) ==
    /\ Alive
    /\ \E src \in texts, kind \in ShaderTypes :
        /\ gl.nobj < MaxObjs
        /\ kind = SrcStage(src) \/ (src = "broken" /\ kind = "Vertex")
        /\ LET r == shader_from_source(Begin(gl), src, kind)
           IN /\ gl' = r.g
              /\ shaders' = IF r.ok THEN shaders \cup {r.id} ELSE shaders
              /\ lastOp' = Op("Shader::from_source", r.id, src,
                              IF r.ok THEN 1 ELSE 0, r.err)
        /\ UNCHANGED <<bufs, programs>> /\ slice' = NoSlice /\ seen' = NoView
        /\ UNCHANGED game

\* impl Drop for Shader
DropShader ==
    /\ Alive
    /\ \E s \in shaders :
        /\ gl' = DeleteShader(Begin(gl), s)
        /\ shaders' = shaders \ {s}
        /\ lastOp' = Op("Shader::drop", s, "", 0, <<>>)
        /\ UNCHANGED <<bufs, programs>> /\ slice' = NoSlice /\ seen' = NoView
        /\ UNCHANGED game

\* Program::from_shaders on a slice of live Shader values
FromShaders ==
    /\ Alive
    /\ \E S \in SUBSET shaders :
        /\ gl.nobj < MaxObjs
        /\ NumPrograms < MaxPrograms
        /\ LET r == from_shaders(Begin(gl), S)
           IN /\ gl' = r.g
              /\ programs' = IF r.ok THEN (r.id :> NewProgram(FALSE)) @@ programs
                             ELSE programs
              /\ lastOp' = Op("Program::from_shaders", r.id, "",
                              IF r.ok THEN 1 ELSE 0, r.err)
        /\ UNCHANGED <<bufs, shaders>> /\ slice' = NoSlice /\ seen' = NoView
        /\ UNCHANGED game

\* impl Drop for Program: gl::DeleteShader(self.id)
DropProgram ==
    /\ Alive
    /\ \E p \in DOMAIN programs :
        /\ gl' = DeleteShader(Begin(gl), p)
        /\ programs' = Without(programs, p)
        /\ lastOp' = Op("Program::drop", p, "", 0, <<>>)
        /\ UNCHANGED <<bufs, shaders>> /\ slice' = NoSlice /\ seen' = NoView
        /\ UNCHANGED game

\* ComputeProgram::from_source: the Shader lives in the temporary array of
\* the from_shaders call and is dropped when that statement ends, on the
\* error path as well.
ComputeFromSource(texts, most) ==
    /\ Alive
    /\ \E src \in texts :
        /\ gl.nobj + 2 <= MaxObjs
        /\ NumPrograms < most
        /\ LET r == shader_from_source(Begin(gl), src, "Compute")
           IN IF ~r.ok
              THEN /\ gl' = r.g
                   /\ programs' = programs
                   /\ lastOp' = Op("ComputeProgram::from_source", r.id, src, 0, r.err)
              ELSE LET l == from_shaders(r.g, {r.id})
                   IN /\ gl' = DeleteShader(l.g, r.id)
                      /\ programs' = IF l.ok
                                     THEN (l.id :> NewProgram(TRUE)) @@ programs
                                     ELSE programs
                      /\ lastOp' = Op("ComputeProgram::from_source", l.id, src,
                                      IF l.ok THEN 1 ELSE 0, l.err)
        /\ UNCHANGED <<bufs, shaders>> /\ slice' = NoSlice /\ seen' = NoView
        /\ UNCHANGED game

\* Program::set_used, ComputeProgram::set_used
SetUsed ==
    /\ Alive
    /\ \E p \in DOMAIN programs :
        /\ gl' = set_used(Begin(gl), p)
        /\ lastOp' = Op("set_used", p, "", 0, <<>>)
        /\ UNCHANGED <<bufs, shaders, programs>> /\ slice' = NoSlice /\ seen' = NoView
        /\ UNCHANGED game

GetUniformLocationOf ==
    /\ Alive
    /\ \E p \in DOMAIN programs, name \in Names :
        LET r == get_uniform_location(Begin(gl), programs[p], p, name)
        IN /\ gl' = r.g
           /\ programs' = [programs EXCEPT ![p] = r.P]
           /\ lastOp' = Op("get_uniform_location", p, name, r.loc, <<>>)
           /\ UNCHANGED <<bufs, shaders>> /\ slice' = NoSlice /\ seen' = NoView
           /\ UNCHANGED game

Set(op, fn, val) ==
    /\ Alive
    /\ \E p \in DOMAIN programs, name \in Names :
        LET r == set_uniform(Begin(gl), programs[p], p, fn, name, val)
        IN /\ gl' = r.g
           /\ programs' = [programs EXCEPT ![p] = r.P]
           /\ lastOp' = Op(op, p, name, r.loc, val)
           /\ UNCHANGED <<bufs, shaders>> /\ slice' = NoSlice /\ seen' = NoView
           /\ UNCHANGED game

SetInt   == Set("set_int",   "Uniform1i", <<3>>)
SetFloat == Set("set_float", "Uniform1f", <<5>>)
SetVec2  == Set("set_vec2",  "Uniform2f", <<8, 6>>)
SetVec3  == Set("set_vec3",  "Uniform3f", <<1, 2, 3>>)

\* ComputeProgram::execute
Execute ==
    /\ Alive
    /\ \E p \in DOMAIN programs, grp \in {<<1, 1, 1>>, <<0, 1, 1>>} :
        /\ programs[p].compute
        /\ gl' = execute(Begin(gl), p, grp[1], grp[2], grp[3])
        /\ lastOp' = Op("execute", p, "", 0, grp)
        /\ UNCHANGED <<bufs, shaders, programs>> /\ slice' = NoSlice /\ seen' = NoView
        /\ UNCHANGED game

\* ------------------------------------------------------------ specifications
\* Spec: clients of BufferObject, with one compute program to fill the buffers.
Next ==
    \/ Gen({1}, BufferTypes)
    \/ WithData(BufferTypes, ElemSizes, DataSeqs)
    \/ WithCapacity(BufferTypes, Lens)
    \/ SetData(DataSeqs)
    \/ ReadSlice
    \/ ReadWriteSlice
    \/ CopyTo
    \/ CopyAllTo
    \/ BindBase
    \/ ComputeFromSource({"fill.comp"}, 1)
    \/ Execute

Spec == Init /\ [][Next]_vars

\* SpecProg: clients of Shader, Program and ComputeProgram, with one kind of
\* storage buffer beside them.
NextProg ==
    \/ FromSource({"screen.frag"})
    \/ DropShader
    \/ FromShaders
    \/ DropProgram
    \/ ComputeFromSource({"fill.comp"}, MaxPrograms)
    \/ SetUsed
    \/ GetUniformLocationOf
    \/ SetInt
    \/ SetFloat
    \/ SetVec2
    \/ SetVec3
    \/ Execute
    \/ WithData({ShaderStorage}, {4}, {Ramp(10, MaxLen)})

SpecProg == Init /\ [][NextProg]_vars

\* SpecLife: construction and destruction of the wrapper objects, with the
\* shader texts that fail to compile or to link among the inputs.
NextLife ==
    \/ FromSource({"screen.vert", "screen.frag", "broken"})
    \/ DropShader
    \/ FromShaders
    \/ DropProgram
    \/ ComputeFromSource({"fill.comp", "undef.comp", "broken"}, MaxPrograms)
    \/ SetUsed

SpecLife == Init /\ [][NextLife]_vars

\* SpecOwn: the same clients, which also create and drop BufferObjects.
NextOwn ==
    \/ NextLife
    \/ Gen({1}, {ArrayBuffer})
    \/ DropBuffer

SpecOwn == Init /\ [][NextOwn]_vars

\* ---------------------------------------------------------------- Game, main
\* The sdl2 events as handle_events tells them apart: Quit, a Window event
\* with Resized, KeyDown and KeyUp with a scancode, and every other event.
Events == {"Quit", "Resized", "KeyDown", "KeyUp", "Other"}

Scancode      == "A"
WindowSize    == <<8, 6>>     \* window.size() when Game::new builds the window
ResizedTo     == <<4, 3>>     \* the size a Resized event carries

\* a GameState that keeps Quit events to itself
handle_event_ConsumesQuit(event) == event = "Quit"

\* GameState::handle_event
handle_event(event) == FALSE

\* GameState::new: the screen program from the two shader texts (both Shader
\* values live in the array handed to from_shaders and are dropped with it),
\* set_used, set_vec2("windowSize"), then the vertex and the index buffer,
\* which go out of scope at the end of their block.  (The vertex array built
\* from them is state the context record does not hold.)
GameStateNew(g, window_size) ==
    LET v   == shader_from_source(g, "screen.vert", "Vertex")
        f   == shader_from_source(v.g, "screen.frag", "Fragment")
        p   == from_shaders(f.g, {v.id, f.id})
        g1  == DeleteShader(DeleteShader(p.g, v.id), f.id)
        g2  == set_used(g1, p.id)
        u   == set_uniform(g2, NewProgram(FALSE), p.id, "Uniform2f",
                           "windowSize", window_size)
        vbo == with_data(u.g, ArrayBuffer, 16, Ramp(0, 4), "StaticDraw")
        ibo == with_data(vbo.g, ElementArray, 4, <<0, 1, 2, 2, 3, 0>>, "StaticDraw")
    IN [g |-> ibo.g, id |-> p.id, P |-> u.P]

\* main up to its loop: Game::new (running: true, no key down, the window's
\* size) and Game::init (state = Some(GameState::new(self))).
InitGame ==
    LET n == GameStateNew(NewContext, WindowSize)
    IN /\ bufs = <<>>
       /\ shaders = {}
       /\ programs = (n.id :> n.P)
       /\ gl = n.g
       /\ lastOp = Op("init", n.id, "", 0, <<>>)
       /\ slice = NoSlice
       /\ seen = NoView
       /\ game = [pc |-> "while", running |-> TRUE, state |-> n.id,
                  queue |-> <<>>, posted |-> 0, window_size |-> WindowSize,
                  keys_down |-> {}]

\* The window system queues an event.
Post ==
    /\ game.pc \notin {"none", "exit"}
    /\ game.posted < MaxEvents
    /\ \E e \in Events :
        /\ game' = [game EXCEPT !.queue = Append(@, e), !.posted = @ + 1]
        /\ lastOp' = Op("post", 0, e, 0, <<>>)
    /\ UNCHANGED <<bufs, shaders, programs, gl, slice, seen>>

\* main: while game.is_running() { ... } Ok(()); leaving main drops the Game
\* and with it the GameState and its Program.
IsRunning ==
    /\ game.pc = "while"
    /\ IF game.running
       THEN /\ game' = [game EXCEPT !.pc = "events"]
            /\ gl' = Begin(gl)
            /\ UNCHANGED programs
       ELSE /\ game' = [game EXCEPT !.pc = "exit", !.state = 0]
            /\ gl' = DeleteShader(Begin(gl), game.state)
            /\ programs' = Without(programs, game.state)
    /\ lastOp' = Op("is_running", 0, "", IF game.running THEN 1 ELSE 0, <<>>)
    /\ UNCHANGED <<bufs, shaders, slice, seen>>

\* Game::handle_events, one turn of its loop over event_pump.poll_iter()
HandleEvent ==
    /\ game.pc = "events"
    /\ game.queue # <<>>
    /\ LET event    == Head(game.queue)
           consumed == game.state # 0 /\ handle_event(event)
           g1       == [game EXCEPT !.queue = Tail(@)]
       IN /\ game' =
                IF consumed THEN g1
                ELSE CASE event = "Quit"    -> [g1 EXCEPT !.running = FALSE]
                       [] event = "Resized" -> [g1 EXCEPT !.window_size = ResizedTo]
                       [] event = "KeyDown" ->
                              [g1 EXCEPT !.keys_down = @ \cup {Scancode}]
                       [] event = "KeyUp"   ->
                              [g1 EXCEPT !.keys_down = @ \ {Scancode}]
                       [] OTHER             -> g1
          /\ lastOp' = Op("handle_events", game.state, event,
                          IF consumed THEN 1 ELSE 0, <<>>)
    /\ gl' = Begin(gl)
    /\ UNCHANGED <<bufs, shaders, programs, slice, seen>>

\* Game::handle_events returns: poll_iter() has no event left
HandleEventsDone ==
    /\ game.pc = "events"
    /\ game.queue = <<>>
    /\ game' = [game EXCEPT !.pc = "frame"]
    /\ lastOp' = Op("handle_events", game.state, "", 0, <<>>)
    /\ gl' = Begin(gl)
    /\ UNCHANGED <<bufs, shaders, programs, slice, seen>>

\* main: if delta >= SECONDS_IN_FRAME (the clock decides)
FrameDue ==
    /\ game.pc = "frame"
    /\ \E due \in BOOLEAN :
        /\ game' = [game EXCEPT !.pc = IF due THEN "update" ELSE "while"]
        /\ lastOp' = Op("frame", 0, "", IF due THEN 1 ELSE 0, <<>>)
    /\ gl' = Begin(gl)
    /\ UNCHANGED <<bufs, shaders, programs, slice, seen>>

\* Game::update: state.take(), GameState::update (empty), state put back
Update ==
    /\ game.pc = "update"
    /\ game' = [game EXCEPT !.pc = "render"]
    /\ lastOp' = Op("update", game.state, "", 0, <<>>)
    /\ gl' = Begin(gl)
    /\ UNCHANGED <<bufs, shaders, programs, slice, seen>>

\* Game::render: gl::Clear, GameState::render (set_used, bind the vertex
\* array, gl::DrawElements), gl_swap_window
Render ==
    /\ game.pc = "render"
    /\ game' = [game EXCEPT !.pc = "while"]
    /\ LET g1 == Call(Begin(gl), <<"Clear">>)
           g2 == IF game.state = 0 THEN g1
                 ELSE Call(set_used(g1, game.state), <<"DrawElements", 6>>)
       IN gl' = g2
    /\ lastOp' = Op("render", game.state, "", 0, <<>>)
    /\ UNCHANGED <<bufs, shaders, programs, slice, seen>>

\* The steps of the main thread.
MainStep ==
    IsRunning \/ HandleEvent \/ HandleEventsDone \/ FrameDue \/ Update \/ Render

\* SpecGame: main.rs from its loop on; the main thread keeps running.
NextGame ==
    \/ Post
    \/ IsRunning
    \/ HandleEvent
    \/ HandleEventsDone
    \/ FrameDue
    \/ Update
    \/ Render

SpecGame == InitGame /\ [][NextGame]_vars /\ WF_vars(MainStep)

\* ==================================================================== claims
BufferMethods == {"gen", "with_data", "with_capacity", "set_data", "read_slice",
                  "read_write_slice", "copy_to", "copy_all_to", "bind_base"}
Setters    == {"set_int", "set_float", "set_vec2", "set_vec3"}
UniformFns == {"Uniform1i", "Uniform1f", "Uniform2f", "Uniform3f"}
Activators == {"set_used", "execute"} \cup Setters
Lookups    == {"get_uniform_location"} \cup Setters

\* C1: after any of the listed BufferObject methods returns, nothing is bound
\* to the (generic) binding point of that buffer's kind.
C1_NeutralAfterBufferMethod ==
    lastOp.op \in BufferMethods => gl.binding[bufs[lastOp.obj].kind] = 0

\* C2: execute issues exactly UseProgram(own id), DispatchCompute(x, y, z),
\* MemoryBarrier(all bits), in this order; no state between two wrapper calls
\* has a shader store that a barrier has not made visible, and after execute
\* every whole int of the storage buffer at binding 0 holds what the dispatch
\* stored.
C2_ExecuteOrderAndBarrier ==
    /\ gl.pending = {}
    /\ lastOp.op = "execute" =>
        /\ gl.calls = << <<"UseProgram", lastOp.obj>>,
                         <<"DispatchCompute", lastOp.data[1], lastOp.data[2],
                           lastOp.data[3]>>,
                         <<"MemoryBarrier", "ALL_BARRIER_BITS">> >>
        /\ (lastOp.data[1] * lastOp.data[2] * lastOp.data[3] > 0 /\ gl.indexed[0] # 0)
           => LET st == gl.store[gl.indexed[0]]
              IN st.bytes = 4 * Len(st.elems)
                    => \A i \in 1..Len(st.elems) : st.elems[i] = 42

\* C2 witness: execute has returned after a dispatch that filled a bound
\* storage buffer of MaxLen ints.
C2_Witness ==
    /\ lastOp.op = "execute"
    /\ lastOp.data = <<1, 1, 1>>
    /\ gl.indexed[0] # 0
    /\ gl.store[gl.indexed[0]].elems = Fill(MaxLen, 42)

\* C3: a dispatch of the program that stores 42 in every element of the
\* 4-element int buffer B bound at binding 0, followed immediately by
\* read_slice on B, hands the callback [42, 42, 42, 42].
C3_DispatchThenReadSlice ==
    [][(/\ lastOp.op = "execute"
        /\ lastOp.data = <<1, 1, 1>>
        /\ lastOp'.op = "read_slice"
        /\ bufs[lastOp'.obj].id = gl.indexed[0]
        /\ bufs[lastOp'.obj].tsize = 4
        /\ gl.store[gl.indexed[0]].bytes = 16)
       => (~seen'.crash /\ seen'.elems = <<42, 42, 42, 42>>)]_vars

\* C8: the slice read_slice / read_write_slice hand to the callback has
\* exactly byteSize / sizeof(T) elements.
C8_SliceLength ==
    lastOp.op \in {"read_slice", "read_write_slice"}
        => slice.len = bufs[lastOp.obj].size \div bufs[lastOp.obj].tsize

\* C9: the recorded byte size of every BufferObject equals the bytes of
\* device storage allocated for it (elements * sizeof(T)).
C9_SizeMatchesStorage ==
    \A b \in Slots : bufs[b].id # 0 => bufs[b].size = gl.store[bufs[b].id].bytes

\* C10: set_data(s) with s non-empty, followed by read_slice, hands the
\* callback a view equal to s.
C10_UploadReadRoundTrip ==
    [][(/\ lastOp.op = "set_data"
        /\ lastOp.data # <<>>
        /\ lastOp'.op = "read_slice"
        /\ lastOp'.obj = lastOp.obj)
       => (~seen'.crash /\ seen'.elems = lastOp.data)]_vars

\* C4: when a setter of Program P writes its value, the current program is P,
\* whatever was current before: the setter's first device call activates P,
\* its last and only uniform write arrives with P current, P is still
\* current when the setter returns (the location lookup in between changed
\* nothing), and a write that matches the uniform's type lands in P.
FnOf(op) ==
    CASE op = "set_int"   -> "Uniform1i"
      [] op = "set_float" -> "Uniform1f"
      [] op = "set_vec2"  -> "Uniform2f"
      [] op = "set_vec3"  -> "Uniform3f"

C4_SetterWritesOwnProgram ==
    lastOp.op \in Setters =>
        LET n      == Len(gl.calls)
            writes == {i \in 1..n : gl.calls[i][1] \in UniformFns}
        IN /\ n >= 2
           /\ gl.calls[1] = <<"UseProgram", lastOp.obj>>
           /\ writes = {n}
           /\ gl.calls[n] = <<FnOf(lastOp.op), lastOp.ret, lastOp.data, lastOp.obj>>
           /\ gl.active = lastOp.obj
           /\ (lastOp.ret = 0
               /\ \E u \in ActiveUniforms(gl, lastOp.obj) :
                     u[2] = UniformType(FnOf(lastOp.op)))
              => gl.uvalue[lastOp.obj] = lastOp.data

\* C4 witness: set_vec2 has written windowSize of one program while another
\* program, used before, is still alive.
C4_Witness ==
    /\ lastOp.op = "set_vec2"
    /\ lastOp.ret = 0
    /\ gl.uvalue[lastOp.obj] = <<8, 6>>
    /\ \E q \in DOMAIN programs : q # lastOp.obj /\ gl.uvalue[q] # <<>>

\* C5: a step of set_used, a setter or execute makes its program the current
\* one; every other step (get_uniform_location, buffer methods, dropping a
\* Shader or a Program, the constructors) leaves the current program as it was.
C5_LastWriterWins ==
    [][/\ lastOp'.op \in Activators => gl'.active = lastOp'.obj
       /\ lastOp'.op \notin Activators => gl'.active = gl.active]_vars

\* C5 witness: with two programs alive and one of them current, a step that
\* is no activation (a buffer method, a Shader drop) has just returned.
C5_Witness ==
    /\ lastOp.op \in {"with_data", "Shader::drop", "get_uniform_location"}
    /\ Cardinality(DOMAIN programs) = 2
    /\ gl.active \in DOMAIN programs
    /\ \E q \in DOMAIN programs : q # gl.active /\ gl.uvalue[q] # <<>>

\* C6: the device is asked for the location of a name of a program at most
\* once, names absent from the linked shaders included.
C6_AtMostOneQuery ==
    \A k \in DOMAIN gl.queries : gl.queries[k] <= 1

\* C6 witness: a lookup of the absent name has returned -1 without any
\* device call, the one query for it having been served before.
C6_Witness ==
    /\ lastOp.op = "get_uniform_location"
    /\ lastOp.name = "missing"
    /\ lastOp.ret = -1
    /\ gl.calls = <<>>
    /\ gl.queries[<<lastOp.obj, "missing">>] = 1

\* C7: the uniform cache of a live Program only grows: an entry stays, with
\* its value; a new Program starts with an empty cache; only
\* get_uniform_location and the setters change a cache; and the value a
\* lookup returns is the entry of the cache.
Cache(P) == P.uniform_cache

C7_CacheAppendOnly ==
    [][/\ \A p \in DOMAIN programs \cap DOMAIN programs' :
            /\ \A n \in DOMAIN Cache(programs[p]) :
                  /\ n \in DOMAIN Cache(programs'[p])
                  /\ Cache(programs'[p])[n] = Cache(programs[p])[n]
            /\ Cache(programs'[p]) # Cache(programs[p])
                  => lastOp'.op \in Lookups /\ lastOp'.obj = p
       /\ \A p \in DOMAIN programs' \ DOMAIN programs :
            DOMAIN Cache(programs'[p]) = {}
       /\ lastOp'.op \in Lookups =>
            /\ lastOp'.name \in DOMAIN Cache(programs'[lastOp'.obj])
            /\ lastOp'.ret = Cache(programs'[lastOp'.obj])[lastOp'.name]]_vars

\* C7 witness: a lookup answered from a cache that holds both names.
C7_Witness ==
    /\ lastOp.op = "get_uniform_location"
    /\ gl.calls = <<>>
    /\ lastOp.ret = 0
    /\ DOMAIN Cache(programs[lastOp.obj]) = Names

\* copy_to's read range and write range, in bytes as the device takes them,
\* against the sizes the two BufferObjects record; a = <<read_offset,
\* write_offset, length>>.
InRange(o, d, a) == a[1] + a[3] <= o.size /\ a[2] + a[3] <= d.size

Copies == {"copy_to", "copy_all_to"}
Reads  == {"read_slice", "read_write_slice"}

\* C11: copy_to and copy_all_to issue the device copy only when read_offset +
\* length lies within the source's size and write_offset + length within the
\* destination's; out of range (copy_all_to into a smaller destination
\* included) the call fails before any device call is issued.
C11_CopyRangeChecked ==
    lastOp.op \in Copies =>
        (~InRange(bufs[lastOp.obj], bufs[lastOp.ret], lastOp.data)
            => gl.calls = <<>>)

\* What an in-range copy leaves in the destination: the source's elements
\* [r, r + len) at [w, w + len), every other element as it was.
Patch(dst, src, a, ts) ==
    [i \in 1..Len(dst) |->
        IF i > a[2] \div ts /\ i <= (a[2] + a[3]) \div ts
        THEN src[i - (a[2] \div ts) + (a[1] \div ts)]
        ELSE dst[i]]

\* C12: an in-range copy_to(dest, r, w, len) puts source[r .. r+len) at
\* dest[w .. w+len) and leaves every other destination position, the
\* source's contents and both recorded sizes as they were; read_slice on dest
\* right after it shows the callback exactly that destination content.
C12_CopyThenRead ==
    [][/\ (lastOp'.op = "copy_to"
           /\ InRange(bufs[lastOp'.obj], bufs[lastOp'.ret], lastOp'.data))
          => LET o == bufs[lastOp'.obj]
                 d == bufs[lastOp'.ret]
             IN /\ gl'.store[d.id].elems =
                       Patch(gl.store[d.id].elems, gl.store[o.id].elems,
                             lastOp'.data, o.tsize)
                /\ gl'.store[o.id] = gl.store[o.id]
                /\ bufs' = bufs
       /\ (lastOp.op = "copy_to"
           /\ InRange(bufs[lastOp.obj], bufs[lastOp.ret], lastOp.data)
           /\ lastOp'.op = "read_slice"
           /\ lastOp'.obj = lastOp.ret)
          => /\ ~seen'.crash
             /\ seen'.elems = gl.store[bufs[lastOp.ret].id].elems]_vars

\* C13: a read_slice / read_write_slice call, which asks the device for a
\* mapping, releases it exactly once before control leaves the call, on the
\* path where the callback panics as on the path where it returns (the
\* release is the call's last device call); hence no buffer is mapped in any
\* state in which another buffer operation can start.
C13_UnmapOnEveryExit ==
    /\ gl.mapped = {}
    /\ (lastOp.op \in Reads /\ ~seen.crash) =>
          LET n == Len(gl.calls)
          IN /\ n = 2
             /\ gl.calls[1][1] = "MapBuffer"
             /\ gl.calls[2] = <<"UnmapBuffer", bufs[lastOp.obj].id>>

\* C14: when a BufferObject or a Program is destroyed, the device handle it
\* held is released: after the drop the buffer name / program name is no
\* longer in use on the device.
C14_HandleReleasedOnDrop ==
    /\ lastOp.op = "Program::drop" => ~IsProgram(gl, lastOp.obj)
    /\ lastOp.op = "BufferObject::drop" => lastOp.obj \notin LiveBuffers(gl)

\* C15: the handle of a Shader is released exactly once, by the drop of the
\* Shader itself, however many Programs it was linked into and in whatever
\* order they are dropped: Program::from_shaders and the drop of a Program
\* release no live shader handle, the drop of a Shader finds its handle live
\* and releases it and no other, and every Program value stays usable (a
\* live, linked program that set_used makes current).
C15_SharedShaderReleasedOnce ==
    [][/\ lastOp'.op \in {"Program::from_shaders", "Program::drop"}
            => \A s \in 1..gl.nobj : IsShader(gl, s) => IsShader(gl', s)
       /\ lastOp'.op = "Shader::drop"
            => /\ IsShader(gl, lastOp'.obj)
               /\ ~IsShader(gl', lastOp'.obj)
               /\ \A s \in 1..gl.nobj :
                     s # lastOp'.obj => (IsShader(gl, s) <=> IsShader(gl', s))
       /\ \A p \in DOMAIN programs' : IsProgram(gl', p) /\ gl'.objs[p].linked
       /\ lastOp'.op = "set_used" => gl'.active = lastOp'.obj]_vars

\* C15 witness: the only shader ever created was linked into two Programs
\* and has been dropped; one of the two Programs has just been made current.
C15_Witness ==
    /\ Cardinality({i \in 1..gl.nobj : gl.objs[i].type = "shader"}) = 1
    /\ shaders = {}
    /\ Cardinality(DOMAIN programs) = 2
    /\ \A p \in DOMAIN programs : gl.objs[p].exe = {"screen.frag"}
    /\ lastOp.op = "set_used"
    /\ gl.active = lastOp.obj

\* The positions of the calls of one device function in the trace of the
\* wrapper call that returned last.
CallsAt(fn) == {i \in 1..Len(gl.calls) : gl.calls[i][1] = fn}

\* C16: Program::from_shaders detaches every shader it attached, after the
\* link and before it returns, whether the link succeeded or failed; on
\* return nothing is attached to the program.
C16_DetachAfterLink ==
    lastOp.op = "Program::from_shaders" =>
        LET A == CallsAt("AttachShader")
            D == CallsAt("DetachShader")
            L == CallsAt("LinkProgram")
        IN /\ Cardinality(L) = 1
           /\ \A a \in A, l \in L : a < l
           /\ \A d \in D, l \in L : l < d
           /\ \A i \in A \cup D : gl.calls[i][2] = lastOp.obj
           /\ {gl.calls[i][3] : i \in A} = {gl.calls[i][3] : i \in D}
           /\ Cardinality(A) = Cardinality(D)
           /\ gl.objs[lastOp.obj].attached = {}

\* C16 witness: a link of two attached shaders has failed and from_shaders
\* has returned its error.
C16_Witness ==
    /\ lastOp.op = "Program::from_shaders"
    /\ lastOp.ret = 0
    /\ Cardinality(CallsAt("AttachShader")) = 2
    /\ Cardinality(CallsAt("DetachShader")) = 2

Constructors == {"Shader::from_source", "Program::from_shaders",
                 "ComputeProgram::from_source"}

\* C17: the error a failed compile or a failed link returns is exactly the
\* diagnostic text the device holds for that shader / program.
C17_ErrorIsDeviceLog ==
    (lastOp.op \in Constructors /\ lastOp.ret = 0)
        => lastOp.data = InfoLog(gl, lastOp.obj)

\* C18: a constructor returns Ok exactly when the device reports success:
\* Shader::from_source iff the compile status is success, Program::from_shaders
\* iff the link status is success, ComputeProgram::from_source iff its compile
\* and its link both succeed, a compile failure being returned before any
\* program is created or linked; and a Shader / Program / ComputeProgram value
\* exists only for a compiled shader / a linked program.
C18_OkIffDeviceSuccess ==
    /\ lastOp.op = "Shader::from_source" =>
          /\ lastOp.ret = 1 <=> CompileStatus(gl, lastOp.obj) = 1
          /\ lastOp.ret = 1 <=> lastOp.obj \in shaders
    /\ lastOp.op = "Program::from_shaders" =>
          /\ lastOp.ret = 1 <=> LinkStatus(gl, lastOp.obj) = 1
          /\ lastOp.ret = 1 <=> lastOp.obj \in DOMAIN programs
    /\ lastOp.op = "ComputeProgram::from_source" =>
          LET sid == IF gl.objs[lastOp.obj].type = "shader"
                     THEN lastOp.obj ELSE lastOp.obj - 1
          IN /\ gl.objs[sid].type = "shader"
             /\ ~gl.objs[sid].compiled =>
                   /\ lastOp.ret = 0
                   /\ lastOp.obj = sid
                   /\ CallsAt("CreateProgram") \cup CallsAt("LinkProgram") = {}
             /\ gl.objs[sid].compiled =>
                   /\ Cardinality(CallsAt("LinkProgram")) = 1
                   /\ lastOp.ret = 1 <=> LinkStatus(gl, lastOp.obj) = 1
             /\ lastOp.ret = 1 <=> lastOp.obj \in DOMAIN programs
    /\ \A s \in shaders : CompileStatus(gl, s) = 1
    /\ \A p \in DOMAIN programs : LinkStatus(gl, p) = 1

\* C18 witness: ComputeProgram::from_source has returned the error of a link
\* that failed after a successful compile.
C18_Witness ==
    /\ lastOp.op = "ComputeProgram::from_source"
    /\ lastOp.name = "undef.comp"
    /\ lastOp.ret = 0
    /\ gl.objs[lastOp.obj].type = "program"
    /\ gl.objs[lastOp.obj - 1].compiled

\* C19: every device handle in use is held by exactly one existing owner: a
\* live shader name by a Shader value, a live program name by a Program (or
\* the Program of a ComputeProgram), a buffer name by one BufferObject.
C19_EveryLiveHandleOwned ==
    /\ \A i \in 1..gl.nobj :
          gl.objs[i].live =>
              IF gl.objs[i].type = "shader" THEN i \in shaders
              ELSE i \in DOMAIN programs
    /\ \A b \in LiveBuffers(gl) :
          Cardinality({k \in Slots : bufs[k].id = b}) = 1

\* C20: handle_events passes every event it polls to the GameState, which
\* consumes none, so a polled Quit sets Game.running to false; nothing sets
\* it back to true; once the loop test finds it false, main leaves the loop
\* without another update or render and stays terminated; and a polled Quit
\* leads to the exit of main.
C20_QuitStopsLoop ==
    /\ [][/\ lastOp'.op = "handle_events" => lastOp'.ret = 0
          /\ (lastOp'.op = "handle_events" /\ lastOp'.name = "Quit")
                => ~game'.running
          /\ ~game.running => ~game'.running
          /\ (~game.running /\ game.pc = "while")
                => /\ game'.pc \in {"while", "exit"}
                   /\ lastOp'.op \notin {"update", "render"}
          /\ game.pc = "exit" => game'.pc = "exit"]_vars
    /\ ((lastOp.op = "handle_events" /\ lastOp.name = "Quit") ~> game.pc = "exit")

\* C20 witness: main has returned after MaxEvents events, a KeyDown and the
\* Quit among them, were all polled.
C20_Witness ==
    /\ game.pc = "exit"
    /\ ~game.running
    /\ game.posted = MaxEvents
    /\ game.queue = <<>>
    /\ game.keys_down = {Scancode}

====
